---- MODULE Spec2Model ----
(***************************************************************************)
(* Model of runPreMidnightProofWorker                                      *)
(* (node/consensus/data/pre_midnight_proof_worker.go).                     *)
(*                                                                         *)
(* The worker is one sequential goroutine; pc is its position in the       *)
(* function.  The collaborators it only reads (proof store, consensus      *)
(* engine, ownership store, direct channel, remote data service, signer)   *)
(* are the environment: every result they can hand back is a choice.       *)
(* Integers: increment is a uint32 and the loop variable an int; on the    *)
(* 64-bit builds modelled here int(increment) is the same number, and the  *)
(* two subtractions of the code (lines 123, 210) are both guarded by a     *)
(* non-zero test, so every value stays far below 2^31.                     *)
(***************************************************************************)
EXTENDS Integers, Sequences, FiniteSets, TLC

(* ------------------------------ constants ------------------------------ *)

\* line 162: a batch is published at 200 accumulated records
BatchSize == 200

\* lines 87, 101: the resume token and the sentinel are 32 bytes
TokenLen == 32

\* line 38: consensus.EngineStateCollecting (Stopped, Starting, Loading, Collecting)
EngineStateCollecting == 3

(* ------------------------------- bounds -------------------------------- *)

\* direct channels the worker may open in one run (one per outer-loop iteration)
MaxSessions == 4

\* status calls the worker may make in one run
MaxStatusCalls == 2

(* ------------------------- environment's values ------------------------ *)

\* make([]byte, 32): the all-zero token
Sentinel == [k \in 1..TokenLen |-> 0]

TokenA == [k \in 1..TokenLen |-> IF k = TokenLen THEN 1 ELSE 0]

TokenB == [k \in 1..TokenLen |-> IF k = TokenLen THEN 2 ELSE 0]

\* status.Address values the remote may answer with
StatusAddresses == {Sentinel, TokenA}

\* resp.Address values the remote may answer a mint with
MintAddresses == {Sentinel, TokenA, TokenB}

\* status.Increment values the remote may answer with: around zero, around
\* one and two full batches, and around the 450 of the three-batch scenario
StatusIncrements ==
  { 0, 1, 3, BatchSize, BatchSize + 1, 450 }

\* local proof stores: the highest increment ever written (-1: none) and
\* the increments below it that are missing
Stores ==
  { [top |-> -1, missing |-> {}],
    [top |-> 5, missing |-> {}],
    [top |-> 5, missing |-> {0}],
    [top |-> 450, missing |-> {}],
    [top |-> 450, missing |-> {220}] }

\* results of coinStore.GetPreCoinProofsForOwner: (err, len(prfs) # 0)
OwnerResults ==
  { [err |-> "nil", found |-> TRUE],
    [err |-> "nil", found |-> FALSE],
    [err |-> "ErrNotFound", found |-> FALSE],
    [err |-> "other", found |-> FALSE] }

\* what the ownership store has not been asked yet
NoOwnerResult == [err |-> "unasked", found |-> FALSE]

VARIABLES
  pc,          \* position of the worker in runPreMidnightProofWorker
  store,       \* e.dataProofStore: the records of this peer
  engineState, \* e.state
  tries,       \* len(e.GetFrameProverTries())
  ownerResult, \* (err, prfs) of line 73, while in scope
  increment,   \* increment (uint32)
  resume,      \* resume ([]byte)
  proofs,      \* proofs ([][]byte), one element per entry
  batchCount,  \* batchCount
  i,           \* the loop variable i (int)
  sessions,    \* per channel obtained from GetDirectChannel: Close calls so far
  statusLog,   \* GetPreMidnightMintStatus calls made, with their answers
  mintLog,     \* HandlePreMidnightMint calls made, with request and answer
  derived,     \* GetAddressOfPreCoinProof calls made, with proof and result
  payload      \* the bytes handed to SignMessage for the batch being sent

vars == << pc, store, engineState, tries, ownerResult, increment, resume, proofs,
           batchCount, i, sessions, statusLog, mintLog, derived, payload >>

(* ------------------------------ helpers -------------------------------- *)

\* dataProofStore.GetDataTimeProof(peer, k) returns err == nil
Present(k) == k \in 0..store.top /\ k \notin store.missing

\* dataProofStore.GetLatestDataTimeProof: ErrNotFound on an empty store
HasProofs == \E k \in 0..store.top : Present(k)

\* the highest increment the store holds at or below k
RECURSIVE LatestFrom(_)
LatestFrom(k) == IF Present(k) THEN k ELSE LatestFrom(k - 1)

\* dataProofStore.GetLatestDataTimeProof: the increment it returns
LatestIncrement == LatestFrom(store.top)

\* the start-up test if the worker did not wait for the engine
EngineNotReadyNever(st) == FALSE

\* line 38: the engine has not finished starting
EngineNotReady(st) == st < EngineStateCollecting

\* line 74: an ownership-store error that is not ErrNotFound
OwnerStoreFailed(r) == r.err # "nil" /\ r.err # "ErrNotFound"

\* the already-minted test if the records found were ignored
AlreadyMintedNever(r) == FALSE

\* line 79: len(prfs) != 0
AlreadyMinted(r) == r.found

\* the token the worker would start with if it kept one from an earlier run
FreshResumeStale == TokenA

\* line 87: resume := make([]byte, 32)
FreshResume == Sentinel

\* the sentinel test if the status were asked for on every iteration
IsSentinelAlways(r) == TRUE

\* line 101: bytes.Equal(resume, make([]byte, 32))
IsSentinel(r) == r = Sentinel

\* the cursor if the status increment were taken as it is
\* the cursor if the subtraction were applied to every status increment
CursorFromStatusUnguarded(r) == r - 1

CursorFromStatusAsIs(r) == r

\* lines 122-126: the cursor taken from a status response
CursorFromStatus(r) == IF r # 0 THEN r - 1 ELSE 0

\* lines 129-132 and 200-203: a batch holding the tag and the resume token
NewBatch(r) == << [kind |-> "pre-dusk"], [kind |-> "resume", token |-> r] >>

\* the loop condition if it stopped short of increment 0
LoopContinuesAboveZero(k) == k > 0

\* line 136: the loop condition i >= 0
LoopContinues(k) == k >= 0

\* lines 142-150: the framed record of increment k
ProofEntry(k) == [kind |-> "proof", increment |-> k]

\* the publish test if it let one record too many in
BatchClosesLate(bc, k) == bc = BatchSize + 1 \/ k = 0

\* line 162: the batch is published now
BatchCloses(bc, k) == bc = BatchSize \/ k = 0

\* the cursor if one increment were stepped over between two batches
NextCursorSkips(k) == k - 2

\* the cursor if the batch's last increment were not stepped over
NextCursorSame(k) == k

\* line 210: the cursor after the batch that ended at increment k
NextCursor(k) == k - 1

\* cc.Close() on the channel of this iteration
CloseCC == [sessions EXCEPT ![Len(sessions)] = @ + 1]

Terminal == { "done_nothing", "done_already", "done_store_error",
              "done_missing", "done_submitted", "panic" }

\* binary.BigEndian.AppendUint32
BE32(x) == << (x \div 16777216) % 256, (x \div 65536) % 256,
              (x \div 256) % 256, x % 256 >>

\* binary.BigEndian.AppendUint64, for lengths
BE64(x) == << 0, 0, 0, 0 >> \o BE32(x)

\* the bytes of "mint" and of "pre-dusk"
Mint == << 109, 105, 110, 116 >>
PreDusk == << 112, 114, 101, 45, 100, 117, 115, 107 >>

\* what the proof store holds for increment k: parallelism, input, output
RecordParallelism(k) == 1
RecordInput(k) == << k % 256 >>
RecordOutput(k) == << >>

\* lines 142-149: the framed record of increment k
FrameBytes(k) ==
  BE32(k) \o BE32(RecordParallelism(k))
    \o BE64(Len(RecordInput(k))) \o RecordInput(k)
    \o BE64(Len(RecordOutput(k))) \o RecordOutput(k)

\* the bytes of one entry of the proofs list
EntryBytes(e) ==
  CASE e.kind = "pre-dusk" -> PreDusk
    [] e.kind = "resume"   -> e.token
    [] e.kind = "proof"    -> FrameBytes(e.increment)

\* lines 166-168: the entries lo..hi of the batch appended one after the
\* other (halved, so that the evaluation stays shallow)
RECURSIVE ConcatEntries(_, _, _)
ConcatEntries(b, lo, hi) ==
  IF lo > hi THEN << >>
  ELSE IF lo = hi THEN EntryBytes(b[lo])
  ELSE LET mid == (lo + hi) \div 2
       IN ConcatEntries(b, lo, mid) \o ConcatEntries(b, mid + 1, hi)

\* the payload if the resume token were left out of what is signed
PayloadSkipsToken(b) == Mint \o EntryBytes(b[1]) \o ConcatEntries(b, 3, Len(b))

\* lines 165-168: "mint" and then every entry of the batch
Payload(b) == Mint \o ConcatEntries(b, 1, Len(b))

\* the proof entries of a batch, as increments
Increments(b) == [k \in 1..(Len(b) - 2) |-> b[k + 2].increment]

\* the request of a HandlePreMidnightMint call, as logged
MintRequest(b) ==
  [ tagged |-> Len(b) >= 2 /\ b[1].kind = "pre-dusk" /\ b[2].kind = "resume",
    token  |-> b[2].token,
    count  |-> Len(b) - 2,
    first  |-> b[3].increment,
    last   |-> b[Len(b)].increment,
    dense  |-> \A k \in 1..(Len(b) - 3) :
                 b[k + 3].increment = b[k + 2].increment - 1 ]

(* -------------------------------- Init --------------------------------- *)

Init ==
  /\ pc = "probe"
  /\ store \in Stores
  /\ engineState = 0
  /\ tries = 0
  /\ ownerResult = NoOwnerResult
  /\ increment = 0
  /\ resume = Sentinel
  /\ proofs = << >>
  /\ batchCount = 0
  /\ i = 0
  /\ sessions = << >>
  /\ statusLog = << >>
  /\ mintLog = << >>
  /\ derived = << >>
  /\ payload = << >>

(* ----------------------------- environment ------------------------------ *)

\* the consensus engine moves through its start-up states on its own
EngineAdvance ==
  /\ UNCHANGED << derived, payload >>
  /\ engineState < EngineStateCollecting
  /\ engineState' = engineState + 1
  /\ UNCHANGED << pc, store, tries, ownerResult, increment, resume, proofs,
                  batchCount, i, sessions, statusLog, mintLog >>

\* the engine ingests frames and its prover tries appear
TriesAppear ==
  /\ UNCHANGED << derived, payload >>
  /\ tries = 0
  /\ tries' = 1
  /\ UNCHANGED << pc, store, engineState, ownerResult, increment, resume, proofs,
                  batchCount, i, sessions, statusLog, mintLog >>

(* ------------------------------ the worker ----------------------------- *)

\* lines 25-35: GetLatestDataTimeProof
ProbeLegacyHistory ==
  /\ UNCHANGED << derived, payload >>
  /\ pc = "probe"
  /\ \/ /\ ~HasProofs                       \* store.ErrNotFound: return
        /\ pc' = "done_nothing"
        /\ UNCHANGED increment
     \/ /\ pc' = "panic"                    \* any other error: panic(err)
        /\ UNCHANGED increment
     \/ /\ HasProofs
        /\ increment' = LatestIncrement
        /\ pc' = "wait_engine"
  /\ UNCHANGED << store, engineState, tries, ownerResult, resume, proofs,
                  batchCount, i, sessions, statusLog, mintLog >>

\* lines 37-44: wait until e.state >= EngineStateCollecting
WaitForEngine ==
  /\ UNCHANGED << derived, payload >>
  /\ pc = "wait_engine"
  /\ IF EngineNotReady(engineState)
       THEN pc' = pc                        \* Sleep, continue
       ELSE pc' = "derive"                  \* break
  /\ UNCHANGED << store, engineState, tries, ownerResult, increment, resume,
                  proofs, batchCount, i, sessions, statusLog, mintLog >>

\* lines 46-62: own address and the beacon's peer id; each failure panics
DeriveAddress ==
  /\ UNCHANGED << derived, payload >>
  /\ pc = "derive"
  /\ \/ pc' = "wait_tries"
     \/ pc' = "panic"
  /\ UNCHANGED << store, engineState, tries, ownerResult, increment, resume,
                  proofs, batchCount, i, sessions, statusLog, mintLog >>

\* lines 64-73: wait for prover tries, then ask the ownership store
QueryOwnership ==
  /\ UNCHANGED << derived, payload >>
  /\ pc = "wait_tries"
  /\ \/ /\ tries = 0                        \* Sleep, continue
        /\ UNCHANGED << pc, ownerResult >>
     \/ /\ tries # 0
        /\ \E r \in OwnerResults : ownerResult' = r
        /\ pc' = "minted_check"
  /\ UNCHANGED << store, engineState, tries, increment, resume, proofs,
                  batchCount, i, sessions, statusLog, mintLog >>

\* lines 74-87: the already-minted check; resume is declared on the way out
CheckAlreadyMinted ==
  /\ UNCHANGED << derived, payload >>
  /\ pc = "minted_check"
  /\ IF OwnerStoreFailed(ownerResult)
       THEN pc' = "done_store_error"
       ELSE IF AlreadyMinted(ownerResult)
         THEN pc' = "done_already"
         ELSE pc' = "open"
  /\ resume' = FreshResume
  /\ ownerResult' = NoOwnerResult
  /\ UNCHANGED << store, engineState, tries, increment, proofs, batchCount, i,
                  sessions, statusLog, mintLog >>

\* lines 89-99: GetDirectChannel
OpenChannel ==
  /\ UNCHANGED << derived, payload >>
  /\ pc = "open"
  /\ \/ UNCHANGED << pc, sessions >>        \* err: Sleep, continue
     \/ /\ Len(sessions) < MaxSessions
        /\ sessions' = Append(sessions, 0)
        /\ pc' = "resolve"
  /\ UNCHANGED << store, engineState, tries, ownerResult, increment, resume,
                  proofs, batchCount, i, statusLog, mintLog >>

\* lines 129-136: a fresh batch and the loop variable, for cursor c and token r
StartBatch(c, r) ==
  /\ increment' = c
  /\ resume' = r
  /\ proofs' = NewBatch(r)
  /\ batchCount' = 0
  /\ i' = c
  /\ pc' = IF LoopContinues(c) THEN "read" ELSE "loop_exit"

\* the failed status call if it went on without closing the channel
StatusFailedLeaks ==
  /\ statusLog' = Append(statusLog, [ok |-> FALSE])
  /\ pc' = "open"
  /\ UNCHANGED << sessions, increment, resume, proofs, batchCount, i >>

\* lines 110-118: the status call failed or answered nil
StatusFailed ==
  /\ statusLog' = Append(statusLog, [ok |-> FALSE])
  /\ sessions' = CloseCC
  /\ pc' = "open"                            \* continue
  /\ UNCHANGED << increment, resume, proofs, batchCount, i >>

\* lines 120-136: the status answer (address a, increment n) is adopted
StatusAnswered(a, n) ==
  /\ statusLog' = Append(statusLog, [ok |-> TRUE, address |-> a, increment |-> n])
  /\ StartBatch(CursorFromStatus(n), a)
  /\ UNCHANGED sessions

\* lines 101-136: the status call when resume is the sentinel, then the batch
ResolveResume ==
  /\ UNCHANGED << derived, payload >>
  /\ pc = "resolve"
  /\ \/ /\ IsSentinel(resume)
        /\ Len(statusLog) < MaxStatusCalls
        /\ \/ StatusFailed
           \/ \E a \in StatusAddresses, n \in StatusIncrements : StatusAnswered(a, n)
     \/ /\ ~IsSentinel(resume)
        /\ StartBatch(increment, resume)
        /\ UNCHANGED << sessions, statusLog >>
  /\ UNCHANGED << store, engineState, tries, ownerResult, mintLog >>

\* lines 141-150, 161-162 and the loop's i--: the record of i was read
ReadFound ==
  /\ proofs' = Append(proofs, ProofEntry(i))
  /\ batchCount' = batchCount + 1
  /\ IF BatchCloses(batchCount + 1, i)
       THEN pc' = "sign" /\ i' = i
       ELSE /\ i' = i - 1
            /\ pc' = IF LoopContinues(i - 1) THEN "read" ELSE "loop_exit"
  /\ UNCHANGED sessions

\* the missing record if it left the loop by break instead of return
ReadMissingBreaks ==
  /\ sessions' = CloseCC
  /\ pc' = "loop_exit"
  /\ UNCHANGED << proofs, batchCount, i >>

\* lines 151-159: no record of i: cc.Close(); return
ReadMissing ==
  /\ sessions' = CloseCC
  /\ pc' = "done_missing"
  /\ UNCHANGED << proofs, batchCount, i >>

\* lines 136-162: one pass of the loop body, up to the publish test
ReadProof ==
  /\ UNCHANGED << derived, payload >>
  /\ pc = "read"
  /\ IF Present(i) THEN ReadFound ELSE ReadMissing
  /\ UNCHANGED << store, engineState, tries, ownerResult, increment, resume,
                  statusLog, mintLog >>

\* lines 165-173: SignMessage over "mint" and the entries
SignBatch ==
  /\ UNCHANGED derived
  /\ pc = "sign"
  /\ payload' = Payload(proofs)
  /\ \/ pc' = "submit" /\ UNCHANGED sessions
     \/ sessions' = CloseCC /\ pc' = "panic"
  /\ UNCHANGED << store, engineState, tries, ownerResult, increment, resume,
                  proofs, batchCount, i, statusLog, mintLog >>

\* the failed submission if it were fatal, as the signing failure is
SubmitFailedPanics ==
  /\ mintLog' = Append(mintLog, [ok |-> FALSE, req |-> MintRequest(proofs)])
  /\ sessions' = CloseCC
  /\ pc' = "panic"
  /\ UNCHANGED << increment, resume, proofs, batchCount >>

\* the failed submission if it moved the cursor on as an answered one does
SubmitFailedAdvances ==
  /\ mintLog' = Append(mintLog, [ok |-> FALSE, req |-> MintRequest(proofs)])
  /\ sessions' = CloseCC
  /\ pc' = "loop_exit"
  /\ increment' = i - 1
  /\ UNCHANGED << resume, proofs, batchCount >>

\* lines 188-196: HandlePreMidnightMint failed
SubmitFailed ==
  /\ mintLog' = Append(mintLog, [ok |-> FALSE, req |-> MintRequest(proofs)])
  /\ sessions' = CloseCC                     \* line 193
  /\ pc' = "loop_exit"                       \* break
  /\ UNCHANGED << increment, resume, proofs, batchCount >>

\* the answered submission if the one that ended at increment 0 only left
\* the inner loop instead of returning
SubmitSucceededBreaks(a) ==
  /\ mintLog' = Append(mintLog,
       [ok |-> TRUE, req |-> MintRequest(proofs), address |-> a])
  /\ resume' = a
  /\ batchCount' = 0
  /\ proofs' = NewBatch(a)
  /\ increment' = IF i = 0 THEN increment ELSE NextCursor(i)
  /\ pc' = "loop_exit"
  /\ UNCHANGED sessions

\* lines 198-213: HandlePreMidnightMint answered with address a
SubmitSucceeded(a) ==
  /\ mintLog' = Append(mintLog,
       [ok |-> TRUE, req |-> MintRequest(proofs), address |-> a])
  /\ resume' = a
  /\ batchCount' = 0
  /\ proofs' = NewBatch(a)
  /\ IF i = 0
       THEN /\ sessions' = CloseCC           \* line 207, return
            /\ pc' = "done_submitted"
            /\ UNCHANGED increment
       ELSE /\ increment' = NextCursor(i)
            /\ pc' = "loop_exit"             \* break
            /\ UNCHANGED sessions

\* lines 175-214: HandlePreMidnightMint and what follows it
SubmitBatch ==
  /\ UNCHANGED derived
  /\ pc = "submit"
  /\ payload' = << >>                       \* the payload ends with its block
  /\ \/ SubmitFailed
     \/ \E a \in MintAddresses : SubmitSucceeded(a)
  /\ UNCHANGED << store, engineState, tries, ownerResult, i, statusLog >>

\* line 216: cc.Close() after the inner loop, then the next outer iteration
LoopExit ==
  /\ UNCHANGED << derived, payload >>
  /\ pc = "loop_exit"
  /\ sessions' = CloseCC
  /\ pc' = "open"
  /\ UNCHANGED << store, engineState, tries, ownerResult, increment, resume,
                  proofs, batchCount, i, statusLog, mintLog >>

Next ==
  \/ EngineAdvance
  \/ TriesAppear
  \/ ProbeLegacyHistory
  \/ WaitForEngine
  \/ DeriveAddress
  \/ QueryOwnership
  \/ CheckAlreadyMinted
  \/ OpenChannel
  \/ ResolveResume
  \/ ReadProof
  \/ SignBatch
  \/ SubmitBatch
  \/ LoopExit

Spec == Init /\ [][Next]_vars

\* a step of the worker itself
WorkerStep ==
  \/ ProbeLegacyHistory
  \/ WaitForEngine
  \/ DeriveAddress
  \/ QueryOwnership
  \/ CheckAlreadyMinted
  \/ OpenChannel
  \/ ResolveResume
  \/ ReadProof
  \/ SignBatch
  \/ SubmitBatch
  \/ LoopExit

\* The worker's goroutine keeps running, the engine finishes starting and
\* ingests frames, and a channel that is asked for again and again is
\* eventually opened (a failed GetDirectChannel changes nothing).
\* The stores taken are those whose records are all there, or none, or all
\* but the last one to be read.
LiveInit == Init /\ store.missing \subseteq {0}

LiveSpec ==
  /\ LiveInit
  /\ [][Next]_vars
  /\ WF_vars(EngineAdvance)
  /\ WF_vars(TriesAppear)
  /\ WF_vars(WorkerStep)

(* ------------------------- GetAddressOfPreCoinProof ---------------------- *)

AddressLen == 32

\* stand-in for application.TOKEN_ADDRESS, a fixed byte string
TOKEN_ADDRESS == << 17, 34 >>

Blobs == { << >>, << 1 >>, << 1, 1 >>, << 2 >> }

\* the proofs handed to the function
PreCoinProofs ==
  [ Amount      : { << 1 >>, << 2 >> },
    Index       : { 0, 258 },
    IndexProof  : Blobs,
    Commitment  : Blobs,
    Proof       : { << 1 >>, << 2 >> },
    Parallelism : { 0, 258 },
    Difficulty  : { 1 },
    Owner       : { << 9 >> } ]

ByteFields == { "Amount", "IndexProof", "Commitment", "Proof", "Owner" }
WordFields == { "Index", "Parallelism", "Difficulty" }

\* the bytes that are hashed
Eval(proof) ==
  TOKEN_ADDRESS \o proof.Amount \o BE32(proof.Index) \o proof.IndexProof
    \o proof.Commitment \o proof.Proof \o BE32(proof.Parallelism)
    \o BE32(proof.Difficulty) \o BE32(0) \o proof.Owner

\* what poseidon.HashBytes may answer: an error, or a number, written as its
\* big-endian bytes without leading zeros (zero has none)
HashValues ==
  { << >>, << 1 >>, << 255, 0 >>, [ k \in 1..AddressLen |-> 200 ] }

HashOutcomes ==
  { [ err |-> TRUE, value |-> << >> ] }
    \cup { [ err |-> FALSE, value |-> v ] : v \in HashValues }

\* the hash is a function of its input, and no two inputs met so far collide
HashAnswers(eval, h) ==
  \A k \in 1..Len(derived) :
    /\ derived[k].eval = eval => derived[k].hash = h
    /\ (derived[k].eval # eval /\ ~h.err) => derived[k].hash # h

\* big.Int.Bytes: the number's own bytes, however few
FillBytesMinimal(v, n) == v

\* big.Int.FillBytes on a buffer of n bytes: zero-extended on the left
FillBytes(v, n) ==
  [ k \in 1..n |-> IF k <= n - Len(v) THEN 0 ELSE v[k - (n - Len(v))] ]

\* the function's result, given what the hash answered; nil is << >>
GetAddressOfPreCoinProof(proof, h) ==
  IF h.err
    THEN [ address |-> << >>, err |-> TRUE ]
    ELSE [ address |-> FillBytes(h.value, AddressLen), err |-> FALSE ]

SwapFields(proof, f, g) == [ proof EXCEPT ![f] = proof[g], ![g] = proof[f] ]

SameKind(f, g) ==
  \/ { f, g } \subseteq ByteFields
  \/ { f, g } \subseteq WordFields

workerVars == << pc, store, engineState, tries, ownerResult, increment, resume,
                 proofs, batchCount, i, sessions, statusLog, mintLog, payload >>

Derive(proof) ==
  \E h \in HashOutcomes :
    /\ HashAnswers(Eval(proof), h)
    /\ derived' = Append(derived,
                    [ proof  |-> proof,
                      eval   |-> Eval(proof),
                      hash   |-> h,
                      result |-> GetAddressOfPreCoinProof(proof, h) ])
    /\ UNCHANGED workerVars

\* a first call, on any proof
DeriveFirst ==
  /\ Len(derived) = 0
  /\ \E proof \in PreCoinProofs : Derive(proof)

\* a second call, on the same proof again
DeriveSame ==
  /\ Len(derived) = 1
  /\ Derive(derived[1].proof)

\* a second call, on the first proof with two of its fields exchanged
DeriveSwapped ==
  /\ Len(derived) = 1
  /\ \E f \in ByteFields \cup WordFields, g \in ByteFields \cup WordFields :
       /\ f # g
       /\ SameKind(f, g)
       /\ Derive(SwapFields(derived[1].proof, f, g))

AddressInit == Init /\ store.top = -1

AddressNext ==
  \/ DeriveFirst
  \/ DeriveSame
  \/ DeriveSwapped

AddressSpec == AddressInit /\ [][AddressNext]_vars

TypeOK ==
  /\ pc \in Terminal \cup { "probe", "wait_engine", "derive", "wait_tries",
                            "minted_check", "open", "resolve", "read", "sign",
                            "submit", "loop_exit" }
  /\ increment \in Nat
  /\ i \in Nat
  /\ batchCount \in 0..BatchSize
  /\ Len(sessions) <= MaxSessions
  /\ Len(statusLog) <= MaxStatusCalls

(* ====================== properties of the worker ======================= *)

\* every remote call made so far succeeded
AllCallsSucceeded ==
  /\ \A k \in 1..Len(statusLog) : statusLog[k].ok
  /\ \A k \in 1..Len(mintLog) : mintLog[k].ok

\* the store holds a record for every increment 0..m
StoreHoldsAll(m) == store.top = m /\ store.missing = {}

\* the status operation was called once and answered increment n
StatusReturned(n) ==
  /\ Len(statusLog) = 1
  /\ statusLog[1].ok
  /\ statusLog[1].increment = n

\* every submission answered so far, other than one that ended at increment 0,
\* returned an address that is not the all-zero sentinel
NoSentinelReply ==
  \A k \in 1..Len(mintLog) :
    (mintLog[k].ok /\ mintLog[k].req.last # 0) => mintLog[k].address # Sentinel

\* the batch of call k covers first, first-1, ..., last and carries token t
Covers(k, first, last, t) ==
  /\ mintLog[k].req.tagged
  /\ mintLog[k].req.token = t
  /\ mintLog[k].req.first = first
  /\ mintLog[k].req.last = last
  /\ mintLog[k].req.dense
  /\ mintLog[k].req.count = first - last + 1

\* the single-batch scenario: records 0..m, status answers n, 1 <= n <= m, n+1 <= 200
SingleBatchScenario ==
  /\ AllCallsSucceeded
  /\ store.missing = {}
  /\ Len(statusLog) = 1
  /\ statusLog[1].ok
  /\ statusLog[1].increment \in 1..store.top
  /\ statusLog[1].increment + 1 <= BatchSize

\* C1 as stated: in the single-batch scenario the first batch submitted
\* starts at the increment n the status operation returned (entries n..0).
C1_AsClaimed ==
  (SingleBatchScenario /\ Len(mintLog) >= 1)
    => Covers(1, statusLog[1].increment, 0, statusLog[1].address)

\* C1 (amended): in the single-batch scenario the worker makes at most one
\* submission; it carries the tag, the status answer's address and the
\* proof entries n-1, n-2, ..., 0 in that order, where n is the increment
\* the status operation returned, and once it is answered the worker has
\* terminated successfully with its session closed.  The run ends in no
\* other way, except by the fatal failure to sign the batch.
C1_SingleBatch ==
  SingleBatchScenario =>
    /\ Len(mintLog) <= 1
    /\ Len(mintLog) = 1 =>
         /\ Covers(1, statusLog[1].increment - 1, 0, statusLog[1].address)
         /\ pc = "done_submitted"
         /\ sessions = << 1 >>
    /\ pc \in Terminal =>
         \/ pc = "done_submitted" /\ Len(mintLog) = 1
         \/ pc = "panic" /\ Len(mintLog) = 0

\* the spec's case: records 0..5, status answers 3, one batch submitted, done
C1_Witness ==
  /\ StoreHoldsAll(5)
  /\ SingleBatchScenario
  /\ statusLog[1].increment = 3
  /\ pc = "done_submitted"
  /\ Len(mintLog) = 1
  /\ mintLog[1].req.count = 3

\* the three-batch scenario: records 0..450, status answers 450, calls succeed
ThreeBatchScenario ==
  /\ StoreHoldsAll(450)
  /\ AllCallsSucceeded
  /\ Len(statusLog) >= 1
  /\ \A k \in 1..Len(statusLog) : statusLog[k].increment = 450

\* C2 as stated: in the three-batch scenario the worker has, when it
\* terminates, submitted three batches of 200, 200 and 51 proof entries.
C2_AsClaimed ==
  (ThreeBatchScenario /\ pc = "done_submitted") =>
    /\ Len(mintLog) = 3
    /\ mintLog[1].req.count = 200
    /\ mintLog[2].req.count = 200
    /\ mintLog[3].req.count = 51

\* C2 (amended): in the three-batch scenario, while no submission is
\* answered with the all-zero address, the worker calls the status operation
\* once and submits at most three batches: 449..250, 249..50 and 49..0
\* (200, 200 and 50 proof entries), the first carrying the status answer's
\* address and each later one the address returned by the previous
\* submission; it terminates successfully exactly when the third is
\* answered, and ends in no other way except by the fatal failure to sign.
C2_ThreeBatches ==
  (ThreeBatchScenario /\ NoSentinelReply) =>
    /\ Len(statusLog) = 1
    /\ Len(mintLog) <= 3
    /\ Len(mintLog) >= 1 => Covers(1, 449, 250, statusLog[1].address)
    /\ Len(mintLog) >= 2 => Covers(2, 249, 50, mintLog[1].address)
    /\ Len(mintLog) >= 3 => Covers(3, 49, 0, mintLog[2].address)
    /\ (pc = "done_submitted") <=> (Len(mintLog) = 3)
    /\ pc \in Terminal => pc \in {"done_submitted", "panic"}

\* three batches went out with three different tokens, and the worker is done
C2_Witness ==
  /\ ThreeBatchScenario
  /\ NoSentinelReply
  /\ pc = "done_submitted"
  /\ Len(mintLog) = 3
  /\ mintLog[1].req.token # mintLog[2].req.token
  /\ mintLog[2].req.token # mintLog[3].req.token

\* C3 as stated: when the status answer reports increment zero, the batch
\* loop that follows starts at the latest local increment.
C3_AsClaimed ==
  [][ ( /\ pc = "resolve"
        /\ Len(statusLog') = Len(statusLog) + 1
        /\ statusLog'[Len(statusLog')].ok
        /\ statusLog'[Len(statusLog')].increment = 0 )
      => i' = LatestIncrement ]_vars

\* the calls answered successfully so far
OkStatus == { k \in 1..Len(statusLog) : statusLog[k].ok }
OkMints == { k \in 1..Len(mintLog) : mintLog[k].ok }

\* the greatest element of a non-empty set of numbers
MaxOf(S) == CHOOSE k \in S : \A j \in S : j <= k

\* the address of the latest remote answer the worker has adopted: the last
\* answered submission, or (none, or an all-zero one) the last status answer
LatestToken ==
  IF OkMints # {} /\ mintLog[MaxOf(OkMints)].address # Sentinel
    THEN mintLog[MaxOf(OkMints)].address
    ELSE statusLog[MaxOf(OkStatus)].address

\* C4: a batch being signed or submitted holds the tag, the current resume
\* token and between 1 and 200 proof entries; it is closed exactly when its
\* 200th record or the record of increment 0 is appended (an open batch has
\* fewer than 200 records and none of increment 0); and the open batch begins
\* with the tag and the latest resume token, so that the first record after
\* a closed batch goes into a batch that holds only these two.
C4_BatchBounds ==
  /\ pc \in {"read", "sign", "submit"} =>
       /\ proofs[1] = [kind |-> "pre-dusk"]
       /\ proofs[2] = [kind |-> "resume", token |-> resume]
       /\ resume = LatestToken
       /\ Len(proofs) = batchCount + 2
       /\ \A k \in 3..Len(proofs) : proofs[k].kind = "proof"
  /\ pc \in {"sign", "submit"} =>
       /\ batchCount >= 1
       /\ batchCount <= 200
       /\ batchCount = 200 \/ proofs[Len(proofs)].increment = 0
       /\ \A k \in 3..(Len(proofs) - 1) : proofs[k].increment # 0
  /\ pc = "read" =>
       /\ batchCount < 200
       /\ \A k \in 3..Len(proofs) : proofs[k].increment # 0
  /\ \A k \in 1..Len(mintLog) :
       /\ mintLog[k].req.tagged
       /\ mintLog[k].req.count >= 1
       /\ mintLog[k].req.count <= 200
       /\ mintLog[k].req.count = 200 \/ mintLog[k].req.last = 0

\* a batch was closed by its 200th record, answered, and the 201st record
\* has gone into the new batch, which carries the answer's address
C4_Witness ==
  /\ pc = "read"
  /\ batchCount = 1
  /\ Len(proofs) = 3
  /\ Len(mintLog) = 1
  /\ mintLog[1].ok
  /\ mintLog[1].req.count = 200
  /\ mintLog[1].req.last # 0
  /\ proofs[2].token = mintLog[1].address
  /\ proofs[2].token # mintLog[1].req.token
  /\ proofs[3].increment = mintLog[1].req.last - 1

\* C5: the loop variable is never negative and never above the cursor, so no
\* increment above nextIncrement is read; with nextIncrement = 0 the loop
\* is entered at i = 0, its body runs once (one record, of increment 0, and
\* the batch is published), and an answered submission ends the worker.
C5_UnderflowGuard ==
  /\ [](pc \in {"read", "sign", "submit"} => (i >= 0 /\ i <= increment))
  /\ []((pc \in {"sign", "submit"} /\ increment = 0) =>
          (i = 0 /\ batchCount = 1 /\ Increments(proofs) = << 0 >>))
  /\ [][ (pc = "resolve" /\ pc' # "open" /\ increment' = 0)
           => (pc' = "read" /\ i' = 0 /\ batchCount' = 0) ]_vars
  /\ [][ (pc = "read" /\ increment = 0 /\ 0 \in 0..store.top /\ 0 \notin store.missing)
           => (pc' = "sign" /\ i' = 0) ]_vars
  /\ [][ (pc = "submit" /\ increment = 0 /\ Len(mintLog') > Len(mintLog)
            /\ mintLog'[Len(mintLog')].ok)
           => pc' = "done_submitted" ]_vars

\* the status answered increment 0, increment 0 alone was submitted, done
C5_Witness ==
  /\ pc = "done_submitted"
  /\ increment = 0
  /\ Len(statusLog) = 1
  /\ statusLog[1].ok
  /\ statusLog[1].increment = 0
  /\ Len(mintLog) = 1
  /\ mintLog[1].req.count = 1
  /\ mintLog[1].req.first = 0

\* C6: an outer-loop iteration that starts with a resume token other than
\* the all-zero sentinel makes no status call and starts its batch, holding
\* the tag and that token, at the increment carried over.
C6_NoStatusOnResume ==
  [][ (pc = "resolve" /\ resume # Sentinel) =>
        /\ statusLog' = statusLog
        /\ increment' = increment
        /\ resume' = resume
        /\ i' = increment
        /\ pc' = "read"
        /\ proofs' = << [kind |-> "pre-dusk"], [kind |-> "resume", token |-> resume] >>
    ]_vars

\* a second iteration has started its batch from the token and the cursor
\* the first submission left, with the one status call of the first
C6_Witness ==
  /\ pc = "read"
  /\ batchCount = 0
  /\ resume # Sentinel
  /\ Len(sessions) = 2
  /\ Len(statusLog) = 1
  /\ Len(mintLog) = 1
  /\ mintLog[1].ok
  /\ i = mintLog[1].req.last - 1

\* C7: when the record of the increment being read is missing, the worker
\* stops for good: that step makes no call and opens no session, and
\* afterwards nothing is submitted, asked, opened or retried.
C7_MissingRecordStops ==
  /\ [][ (pc = "read" /\ ~(i \in 0..store.top /\ i \notin store.missing)) =>
           /\ pc' = "done_missing"
           /\ mintLog' = mintLog
           /\ statusLog' = statusLog
           /\ Len(sessions') = Len(sessions) ]_vars
  /\ [][ pc = "done_missing" =>
           /\ pc' = "done_missing"
           /\ mintLog' = mintLog
           /\ statusLog' = statusLog
           /\ sessions' = sessions ]_vars

\* a record was missing after one batch had gone out and others had been
\* accumulated: these were not submitted
C7_Witness ==
  /\ pc = "done_missing"
  /\ Len(mintLog) = 1
  /\ mintLog[1].ok
  /\ batchCount > 0
  /\ Len(proofs) = batchCount + 2
  /\ i \in store.missing

\* C8: when the ownership store returns a record for the address, the worker
\* ends as already completed, having opened no channel and made no call.
C8_AlreadyMintedNoSession ==
  /\ [][ (pc = "minted_check" /\ ownerResult.found) => pc' = "done_already" ]_vars
  /\ []((pc = "done_already" \/ (pc = "minted_check" /\ ownerResult.found)) =>
          (sessions = << >> /\ statusLog = << >> /\ mintLog = << >>))
  /\ [][ pc = "done_already" => pc' = "done_already" ]_vars

\* the worker ended as already completed
C8_Witness ==
  /\ pc = "done_already"
  /\ tries # 0
  /\ engineState >= EngineStateCollecting

\* C9: every session but the current one has been closed, at most one is
\* open, and none is open when the worker has terminated or is about to
\* acquire the next one.
C9_SessionsReleased ==
  /\ \A k \in 1..(Len(sessions) - 1) : sessions[k] >= 1
  /\ Cardinality({ k \in 1..Len(sessions) : sessions[k] = 0 }) <= 1
  /\ pc \in (Terminal \cup {"open"}) => \A k \in 1..Len(sessions) : sessions[k] >= 1

\* the worker finished after a failed status call and a failed submission
C9_Witness ==
  /\ pc = "done_submitted"
  /\ Len(sessions) >= 3
  /\ \E k \in 1..Len(statusLog) : ~statusLog[k].ok
  /\ \E k \in 1..Len(mintLog) : ~mintLog[k].ok

\* the ways the worker may terminate
TerminatesBy ==
  \/ pc = "probe" /\ pc' \in {"done_nothing", "panic"}
  \/ pc = "derive" /\ pc' = "panic"
  \/ pc = "minted_check" /\ pc' \in {"done_already", "done_store_error"}
  \/ pc = "read" /\ pc' = "done_missing" /\ i \notin (0..store.top) \ store.missing
  \/ pc = "sign" /\ pc' = "panic"
  \/ /\ pc = "submit" /\ pc' = "done_submitted" /\ i = 0
     /\ Len(mintLog') = Len(mintLog) + 1 /\ mintLog'[Len(mintLog')].ok

\* C10: a failure to open the channel leaves the worker at session
\* acquisition; a failed or nil status answer and a failed submission lead
\* back to it; and the worker terminates only by nothing-to-migrate,
\* already-minted, ownership-store error, missing record, an answered
\* submission that ended at increment 0, or a panic.
C10_TransientRetried ==
  /\ [][ pc = "open" => pc' \in {"open", "resolve"} ]_vars
  /\ [][ (pc = "resolve" /\ Len(statusLog') > Len(statusLog)
            /\ ~statusLog'[Len(statusLog')].ok) => pc' = "open" ]_vars
  /\ [][ (pc = "submit" /\ Len(mintLog') > Len(mintLog)
            /\ ~mintLog'[Len(mintLog')].ok) => pc' = "loop_exit" ]_vars
  /\ [][ pc = "loop_exit" => pc' = "open" ]_vars
  /\ [][ (pc \notin Terminal /\ pc' \in Terminal) => TerminatesBy ]_vars
  /\ [][ (pc \in Terminal) => UNCHANGED pc ]_vars

\* after a failed status call and a failed submission the worker is
\* submitting again
C10_Witness ==
  /\ pc = "submit"
  /\ Len(statusLog) = 2
  /\ ~statusLog[1].ok
  /\ Len(mintLog) = 1
  /\ ~mintLog[1].ok
  /\ Len(sessions) = 3

\* C11: a failed submission closes the session and leaves the outer-loop
\* iteration with the resume token and the cursor as they were; the
\* submission that follows a failed one whose token is not the all-zero
\* sentinel carries the same token and covers the same increments from the
\* same start; and an iteration that starts with the sentinel asks for the
\* status before anything is submitted.
C11_NoProgressLost ==
  /\ [](\A k \in 1..(Len(mintLog) - 1) :
          (~mintLog[k].ok /\ mintLog[k].req.token # Sentinel) =>
             /\ mintLog[k + 1].req.token = mintLog[k].req.token
             /\ mintLog[k + 1].req.first = mintLog[k].req.first
             /\ mintLog[k + 1].req.last = mintLog[k].req.last
             /\ mintLog[k + 1].req.count = mintLog[k].req.count)
  /\ [][ (pc = "submit" /\ Len(mintLog') > Len(mintLog)
            /\ ~mintLog'[Len(mintLog')].ok) =>
           /\ pc' = "loop_exit"
           /\ sessions'[Len(sessions')] >= 1
           /\ Len(sessions') = Len(sessions)
           /\ resume' = resume
           /\ increment' = increment
           /\ increment = mintLog'[Len(mintLog')].req.first ]_vars
  /\ [][ (pc = "resolve" /\ resume = Sentinel) =>
           (Len(statusLog') = Len(statusLog) + 1 /\ mintLog' = mintLog) ]_vars

\* a full batch failed and was submitted again, unchanged, under its token
C11_Witness ==
  /\ Len(mintLog) = 2
  /\ ~mintLog[1].ok
  /\ mintLog[1].req.token # Sentinel
  /\ mintLog[1].req.count = 200
  /\ mintLog[1].req.first = 449
  /\ mintLog[2].ok
  /\ Len(statusLog) = 1

\* the run has used up the sessions or status calls explored
Exhausted ==
  \/ pc = "open" /\ Len(sessions) = MaxSessions
  \/ pc = "resolve" /\ resume = Sentinel /\ Len(statusLog) = MaxStatusCalls

\* a remote call failed, or a submission that did not end at increment 0
\* was answered with the all-zero address
Troubled ==
  \/ \E k \in 1..Len(statusLog) : ~statusLog[k].ok
  \/ \E k \in 1..Len(mintLog) : ~mintLog[k].ok
  \/ \E k \in 1..Len(mintLog) :
       mintLog[k].ok /\ mintLog[k].req.last # 0 /\ mintLog[k].address = Sentinel

\* the worker returned after an answered submission that ended at increment 0
Completed ==
  /\ pc = "done_submitted"
  /\ Len(mintLog) >= 1
  /\ mintLog[Len(mintLog)].ok
  /\ mintLog[Len(mintLog)].req.last = 0
  /\ mintLog[Len(mintLog)].req.dense

\* the worker ended because a condition of the migration was not met
NotApplicable ==
  \/ pc = "done_nothing" /\ store.top < 0
  \/ pc \in {"done_already", "done_store_error"} /\ sessions = << >>
  \/ pc = "done_missing" /\ i \notin (0..store.top) \ store.missing
  \/ pc = "panic"

\* C12: under the fairness of LiveSpec the worker always ends: by the
\* answered submission of the batch that ends at increment 0, or because
\* there was nothing to migrate, the mint was already made or the ownership
\* store failed, a record in range was missing, or a fatal failure.  It is
\* found short of that only after remote calls failed or were answered with
\* the all-zero address often enough to use up the sessions explored.
C12_Liveness == <>(Completed \/ NotApplicable \/ (Exhausted /\ Troubled))

\* the worker completed a three-batch migration in spite of a failed call
C12_Witness ==
  /\ Completed
  /\ Troubled
  /\ Cardinality(OkMints) = 3
  /\ Len(sessions) = 4


(* ---- C13 ---- *)
\* the second call was made on the first call's proof with the different
\* values of fields f and g exchanged
SwappedCall(f, g) ==
  /\ Len(derived) = 2
  /\ f # g
  /\ SameKind(f, g)
  /\ derived[1].proof[f] # derived[1].proof[g]
  /\ derived[2].proof = SwapFields(derived[1].proof, f, g)

SameWidth(f, g) ==
  f \in ByteFields => Len(derived[1].proof[f]) = Len(derived[1].proof[g])

Deterministic ==
  \A a \in 1..Len(derived), b \in 1..Len(derived) :
    derived[a].proof = derived[b].proof => derived[a].result = derived[b].result

SizedOrRefused ==
  \A a \in 1..Len(derived) :
    IF derived[a].hash.err
      THEN derived[a].result.err /\ derived[a].result.address = << >>
      ELSE ~derived[a].result.err
             /\ Len(derived[a].result.address) = AddressLen

BothHashed == \A a \in 1..Len(derived) : ~derived[a].hash.err

\* C13 as stated: exchanging any two fields changes the address.
C13_AsClaimed ==
  /\ Deterministic
  /\ SizedOrRefused
  /\ \A f \in ByteFields \cup WordFields, g \in ByteFields \cup WordFields :
       (SwappedCall(f, g) /\ BothHashed)
         => derived[1].result.address # derived[2].result.address

\* C13, amended: GetAddressOfPreCoinProof gives equal results for equal
\* proofs, exactly 32 bytes whenever the hash succeeds, and an error with no
\* address when the hash fails; exchanging two 32-bit fields, or two byte
\* fields of the same length, that hold different values changes the bytes
\* that are hashed and, the hash not colliding, the address.
C13_Derivation ==
  /\ Deterministic
  /\ SizedOrRefused
  /\ \A f \in ByteFields \cup WordFields, g \in ByteFields \cup WordFields :
       (SwappedCall(f, g) /\ SameWidth(f, g))
         => /\ derived[1].eval # derived[2].eval
            /\ BothHashed
                 => derived[1].result.address # derived[2].result.address

\* two successful calls on proofs that differ by an exchange of two byte
\* fields of one length, the smaller hash value zero-extended to 32 bytes
C13_Witness ==
  /\ SwappedCall("Amount", "Proof")
  /\ BothHashed
  /\ derived[1].hash.value = << 1 >>
  /\ Len(derived[1].result.address) = AddressLen
  /\ derived[1].result.address # derived[2].result.address


(* ---- C14 ---- *)
StatusJustAnswered ==
  /\ Len(statusLog') = Len(statusLog) + 1
  /\ statusLog'[Len(statusLog')].ok

\* C14: a successful status response with increment r makes its address the
\* resume token and starts the batch loop at r-1 when r # 0 and at 0 when
\* r = 0; the cursor never leaves 0..r, so the subtraction never wraps.
C14_CursorFromStatus ==
  [][ StatusJustAnswered =>
        LET r == statusLog'[Len(statusLog')].increment
            a == statusLog'[Len(statusLog')].address
        IN /\ resume' = a
           /\ proofs' = << [kind |-> "pre-dusk"], [kind |-> "resume", token |-> a] >>
           /\ increment' = (IF r = 0 THEN 0 ELSE r - 1)
           /\ i' = increment'
           /\ i' \in 0..r
           /\ pc' = "read" ]_vars

\* the status answered increment 0 and the loop is about to read increment 0
C14_Witness ==
  /\ Len(statusLog) = 1
  /\ statusLog[1].ok
  /\ statusLog[1].increment = 0
  /\ statusLog[1].address = resume
  /\ pc = "read"
  /\ i = 0
  /\ batchCount = 0
  /\ mintLog = << >>


(* ---- C15 ---- *)
\* the worker has asked the ownership store, or is past asking it
AskedAround ==
  \/ ownerResult # NoOwnerResult
  \/ sessions # << >>
  \/ statusLog # << >>
  \/ mintLog # << >>
  \/ pc \in { "minted_check", "open", "resolve", "read", "sign", "submit",
              "loop_exit", "done_already", "done_store_error", "done_missing",
              "done_submitted" }

PastEngineWait == AskedAround \/ pc \in { "derive", "wait_tries" }

Unready ==
  \/ pc = "wait_engine" /\ engineState < EngineStateCollecting
  \/ pc = "wait_tries" /\ tries = 0

\* C15: the ownership store is not queried, no channel opened and no remote
\* call made before the engine state was seen at or past
\* EngineStateCollecting and then the prover tries seen non-empty; while one
\* of the two is unmet a step of the worker changes nothing and polls again.
C15_ReadinessOrdering ==
  /\ [](PastEngineWait => engineState >= EngineStateCollecting)
  /\ [](AskedAround => tries # 0)
  /\ [][ Unready => UNCHANGED << pc, ownerResult, increment, resume, proofs,
                                 batchCount, i, sessions, statusLog, mintLog >> ]_vars

\* the ownership store has just been asked, engine and tries both ready
C15_Witness ==
  /\ pc = "minted_check"
  /\ ownerResult # NoOwnerResult
  /\ engineState = EngineStateCollecting
  /\ tries # 0
  /\ sessions = << >>


(* ---- C16 ---- *)
\* C16 as stated: in the already-minted check an ownership-store error other
\* than not-found ends the worker in the fatal outcome, as a hash or signing
\* failure does; a not-found result with no records goes on to the channel.
C16_AsClaimed ==
  [][ pc = "minted_check" =>
        /\ (ownerResult.err = "other") => pc' = "panic"
        /\ (ownerResult.err = "ErrNotFound" /\ ~ownerResult.found) => pc' = "open"
    ]_vars


(* ---- C17 ---- *)
StatusSucceeded == \E k \in 1..Len(statusLog) : statusLog[k].ok

\* C17: the resume token is the all-zero sentinel when the worker reaches
\* the remote side, so the first remote operation of a run is
\* GetPreMidnightMintStatus, and HandlePreMidnightMint is not called before
\* a status call of the run has succeeded.
C17_StatusFirst ==
  /\ []((statusLog = << >> /\ pc \in { "open", "resolve" }) => resume = Sentinel)
  /\ [](mintLog # << >> => StatusSucceeded)
  /\ [][ mintLog' # mintLog => StatusSucceeded ]_vars
  /\ [][ (statusLog = << >> /\ pc = "resolve" /\ pc' # pc)
           => Len(statusLog') = 1 ]_vars

\* a first status call failed, a second succeeded, then a batch was sent
C17_Witness ==
  /\ Len(statusLog) = 2
  /\ ~statusLog[1].ok
  /\ statusLog[2].ok
  /\ Len(mintLog) = 1


(* ---- C18 ---- *)
HeadLen == Len(Mint) + Len(PreDusk) + TokenLen
FrameLen == Len(FrameBytes(0))

\* C18: when HandlePreMidnightMint is called, the payload that was signed
\* is "mint", then the tag entry, then the resume token that is sent, then
\* the framed records sent, in the order sent, and nothing else.
C18_SignedIsSent ==
  [][ mintLog' # mintLog =>
        LET n == Len(proofs) - 2
        IN /\ proofs[1].kind = "pre-dusk"
           /\ proofs[2].kind = "resume"
           /\ proofs[2].token = resume
           /\ mintLog'[Len(mintLog')].req.token = resume
           /\ mintLog'[Len(mintLog')].req.count = n
           /\ Len(payload) = HeadLen + n * FrameLen
           /\ SubSeq(payload, 1, Len(Mint)) = Mint
           /\ SubSeq(payload, Len(Mint) + 1, Len(Mint) + Len(PreDusk)) = PreDusk
           /\ SubSeq(payload, Len(Mint) + Len(PreDusk) + 1, HeadLen) = resume
           /\ \A k \in 1..n :
                /\ proofs[k + 2].kind = "proof"
                /\ SubSeq(payload, HeadLen + (k - 1) * FrameLen + 1,
                                   HeadLen + k * FrameLen)
                     = FrameBytes(proofs[k + 2].increment) ]_vars

\* a second batch, signed over the token the first submission answered with
C18_Witness ==
  /\ pc = "submit"
  /\ Len(mintLog) = 1
  /\ mintLog[1].ok
  /\ mintLog[1].address = TokenB
  /\ Len(proofs) = BatchSize + 2
  /\ Len(payload) = HeadLen + BatchSize * FrameLen
  /\ SubSeq(payload, Len(Mint) + Len(PreDusk) + 1, HeadLen) = TokenB


(* ---- C19 ---- *)
NoZeroFromMint ==
  \A k \in OkMints : mintLog[k].address # Sentinel

\* the increment the first answered batch must start at: the one fixed by
\* the last status response
StartFromStatus ==
  LET r == statusLog[MaxOf(OkStatus)].increment
  IN IF r = 0 THEN 0 ELSE r - 1

\* C19: when HandlePreMidnightMint never answers the all-zero address, the
\* proof entries of the answered batches, in submission order, are
\* s, s-1, ... without gap or repetition, s being the start fixed by the
\* status response, whatever failed submissions lie in between.
C19_ContiguousCoverage ==
  NoZeroFromMint =>
    \A k \in OkMints :
      /\ mintLog[k].req.tagged
      /\ mintLog[k].req.dense
      /\ mintLog[k].req.count = mintLog[k].req.first - mintLog[k].req.last + 1
      /\ mintLog[k].req.last >= 0
      /\ LET before == { j \in OkMints : j < k }
         IN IF before = {}
              THEN mintLog[k].req.first = StartFromStatus
              ELSE mintLog[k].req.first = mintLog[MaxOf(before)].req.last - 1

\* three answered batches from 449 down to 0 with a failed attempt between
C19_Witness ==
  /\ NoZeroFromMint
  /\ Len(mintLog) = 4
  /\ OkMints = { 1, 3, 4 }
  /\ mintLog[1].req.first = 449
  /\ mintLog[3].req.first = 249
  /\ mintLog[4].req.first = 49
  /\ mintLog[4].req.last = 0


(* ---- C20 ---- *)
\* C20 as stated: Close is never called a second time on a session, so
\* every session is closed at most once, and exactly once when another has
\* been opened after it or the worker has terminated.
C20_AsClaimed ==
  /\ \A k \in 1..Len(sessions) : sessions[k] <= 1
  /\ \A k \in 1..(Len(sessions) - 1) : sessions[k] = 1
  /\ pc \in Terminal => \A k \in 1..Len(sessions) : sessions[k] = 1

====
